---- MODULE Spec2Model ----
(***************************************************************************)
(* One run of either command-line tool of skills/aws-cli/scripts:          *)
(*   aws_check.py   (all | identity | permissions | services | config)     *)
(*   aws_metrics.py (list | get | alarms | ecs | ec2 | rds | export)       *)
(* Both are sequential; every step is one call of the external aws binary  *)
(* (subprocess.run) followed by the code that handles its result.  The     *)
(* environment chooses the outcome of every external call.                 *)
(*                                                                         *)
(* Abstractions:                                                           *)
(*  - text is a sequence of tokens; json.loads is JsonLoads below;         *)
(*  - a printed line is recorded in out by the print statement that made   *)
(*    it (its fixed text), without the interpolated values; the lines a    *)
(*    loop prints for the items of one list are recorded once, and the     *)
(*    line of each permission probe is counted, not recorded; what         *)
(*    show_config prints of the two files and of the environment is kept   *)
(*    with its values in shown;                                            *)
(*  - a successful call made with --output json prints either a document   *)
(*    of the shape its --query asks for or text that is not JSON.          *)
(***************************************************************************)
EXTENDS Integers, Sequences, FiniteSets, TLC

VARIABLES
    tool,          \* "check" | "metrics": which script runs
    command,       \* args.command
    optarg,        \* the optional positional (namespace, state, service) is given
    hours,         \* args.hours
    dimension,     \* args.dimension of the get sub-command (None or text)
    awsInPath,     \* an aws binary is on PATH
    configExists,  \* ~/.aws/config exists
    credentialsExists, \* ~/.aws/credentials exists
    configFile,    \* the lines of ~/.aws/config (without their line ends)
    credentialsFile, \* the lines of ~/.aws/credentials
    env,           \* os.environ, for the four variables show_config reads
    shown,         \* what show_config printed of the files and the environment
    pc,            \* the next call site of the run, or "done"
    calls,         \* the external commands invoked so far, in order
    out,           \* the lines printed so far, in order
    proc,          \* what the last subprocess.run did (exit / exception)
    result,        \* the CommandResult of the last run_aws_command
    returned,      \* what each check function returned to main: "True", "False", None
    idx,           \* loop index of the current for loop
    passed,        \* check_permissions: passed
    failed,        \* check_permissions: failed
    clusters,      \* discover_services: clusters (their number)
    counts,        \* list_alarms: counts, in the order ALARM, OK, INSUFFICIENT_DATA
    window,        \* (start_time, end_time) of get_time_range
    dimArg,        \* get_metric: the --dimensions filter put on the command line
    tmpFile,       \* the temporary query file of export_metrics exists
    outFile,       \* content of the export's output file, or Absent
    outFile0,      \* content of the output file when the run began
    reqFailed,     \* a required permission probe has not succeeded (history)
    exit,          \* the exit code of the process, or Running
    raised         \* the exception that left main, or "none"

vars == <<tool, command, optarg, hours, awsInPath, configExists, credentialsExists,
          pc, calls, out, proc, result, returned, idx, passed, failed, clusters,
          counts, window, tmpFile, outFile, outFile0, reqFailed, exit, raised,
          dimension, dimArg, configFile, credentialsFile, env, shown>>

(***************************************************************************)
(* Bounds of the model.                                                    *)
(***************************************************************************)
\* The longest list a JSON document of the model holds.
MaxItems == 2
\* --hours ranges over -MaxHours .. MaxHours.
MaxHours == 2
\* The longest text given as --dimension.
MaxDimension == 3
\* The longest line (in tokens) of a configuration file.
MaxLineTokens == 5

None == "None"
\* The exit code of a process that has not ended.
Running == 0 - 1
\* A file that does not exist, and a file holding text s.
Absent == [exists |-> FALSE, content |-> <<>>]
File(s) == [exists |-> TRUE, content |-> s]

(***************************************************************************)
(* Text and JSON.                                                          *)
(***************************************************************************)
\* A JSON list of n elements, as text.
ListDoc(n) == <<"[">> \o [i \in 1..n |-> "a"] \o <<"]">>

\* A JSON object, as text (the identity document).
DictDoc == <<"{", "}">>

\* Text that is not JSON: empty output, a truncated list, plain words.
NotJson == {<<>>, <<"[", "a">>, <<"a">>}

\* json.loads: the parsed value, or JSONDecodeError.
JsonLoads(s) ==
    IF s = DictDoc THEN [ok |-> TRUE, kind |-> "dict", n |-> 0]
    ELSE IF /\ Len(s) >= 2
            /\ s[1] = "["
            /\ s[Len(s)] = "]"
            /\ \A i \in 2..(Len(s) - 1) : s[i] = "a"
         THEN [ok |-> TRUE, kind |-> "list", n |-> Len(s) - 2]
         ELSE [ok |-> FALSE, kind |-> "JSONDecodeError", n |-> 0]

\* Output of a call made with --output json and a list query.
ListStdouts == {ListDoc(n) : n \in 0..MaxItems} \cup NotJson
\* Output of sts get-caller-identity --output json.
IdentityStdouts == {DictDoc} \cup NotJson
\* Output of a call made with --output table or text, or with no --output.
TextStdouts == {<<>>, <<"a">>, <<"0">>}

\* str.strip(): leading and trailing whitespace removed.
RECURSIVE Strip(_)
Strip(s) ==
    IF s = <<>> THEN s
    ELSE IF Head(s) \in {" ", "\n"} THEN Strip(Tail(s))
    ELSE IF s[Len(s)] \in {" ", "\n"} THEN Strip(SubSeq(s, 1, Len(s) - 1))
    ELSE s

\* The elements of seq, as a set.
Range(seq) == {seq[i] : i \in 1..Len(seq)}

\* The texts of at most n tokens over the set chars.
TextsUpTo(chars, n) == UNION {[1..k -> chars] : k \in 0..n}

(***************************************************************************)
(* The external process and run_aws_command.                               *)
(***************************************************************************)
\* Exit codes of the aws process (negative: killed by a signal).
ExitCodes == {0 - 9, 0, 1}

\* What a failing aws process leaves on its standard output.
FailStdouts == {<<>>, <<"a">>}

NoProc == [kind |-> None, returncode |-> 0, stdout |-> <<>>, stderr |-> ""]
NoResult == [success |-> FALSE, stdout |-> <<>>, stderr |-> None, returncode |-> 0]

\* What subprocess.run can do: the process exits (with one of stdouts on its
\* standard output when it exits 0), the timeout expires, or there is no aws
\* binary to run.  With no aws on PATH only the last can happen.
Outcomes(stdouts) ==
    IF awsInPath
    THEN {[kind |-> "exit", returncode |-> 0, stdout |-> s, stderr |-> ""] :
              s \in stdouts}
         \cup {[kind |-> "exit", returncode |-> rc, stdout |-> s,
                 stderr |-> "An error occurred"] :
              rc \in ExitCodes \ {0}, s \in FailStdouts}
         \cup {[kind |-> "TimeoutExpired", returncode |-> 0, stdout |-> <<>>, stderr |-> ""],
               [kind |-> "FileNotFoundError", returncode |-> 0, stdout |-> <<>>, stderr |-> ""]}
    ELSE {[kind |-> "FileNotFoundError", returncode |-> 0, stdout |-> <<>>, stderr |-> ""]}

\* run_aws_command with the timeout's synthetic result given returncode 0.
run_aws_command_TimeoutZero(o) ==
    IF o.kind = "exit"
    THEN [success |-> (o.returncode = 0), stdout |-> o.stdout,
          stderr |-> o.stderr, returncode |-> o.returncode]
    ELSE IF o.kind = "TimeoutExpired"
    THEN [success |-> FALSE, stdout |-> <<>>,
          stderr |-> "Command timed out", returncode |-> 0]
    ELSE [success |-> FALSE, stdout |-> <<>>,
          stderr |-> "AWS CLI not found", returncode |-> 0 - 1]

\* aws_check.py run_aws_command: the CommandResult for outcome o.
run_aws_command(o) ==
    IF o.kind = "exit"
    THEN [success |-> (o.returncode = 0), stdout |-> o.stdout,
          stderr |-> o.stderr, returncode |-> o.returncode]
    ELSE IF o.kind = "TimeoutExpired"
    THEN [success |-> FALSE, stdout |-> <<>>,
          stderr |-> "Command timed out", returncode |-> 0 - 1]
    ELSE [success |-> FALSE, stdout |-> <<>>,
          stderr |-> "AWS CLI not found", returncode |-> 0 - 1]

\* run_aws_command with both handlers giving the timeout's message.
metrics_run_aws_command_OneMessage(o) ==
    IF o.kind = "exit"
    THEN [success |-> (o.returncode = 0), stdout |-> o.stdout,
          stderr |-> o.stderr, returncode |-> o.returncode]
    ELSE [success |-> FALSE, stdout |-> <<>>,
          stderr |-> "Command timed out", returncode |-> 0 - 1]

\* aws_metrics.py run_aws_command (the same text, default timeout 60).
metrics_run_aws_command(o) ==
    IF o.kind = "exit"
    THEN [success |-> (o.returncode = 0), stdout |-> o.stdout,
          stderr |-> o.stderr, returncode |-> o.returncode]
    ELSE IF o.kind = "TimeoutExpired"
    THEN [success |-> FALSE, stdout |-> <<>>,
          stderr |-> "Command timed out", returncode |-> 0 - 1]
    ELSE [success |-> FALSE, stdout |-> <<>>,
          stderr |-> "AWS CLI not found", returncode |-> 0 - 1]

(***************************************************************************)
(* Command lines.                                                          *)
(***************************************************************************)
CheckCommands == {"all", "identity", "permissions", "services", "config"}
MetricsCommands == {"list", "get", "alarms", "ecs", "ec2", "rds", "export", None}

DEFAULT_HOURS == 1
EXPORT_HOURS == 24
Hours == (0 - MaxHours)..MaxHours

\* A probe table that lost its last entry (used to test C13).
required_tests_NineProbes ==
    <<"ecs:ListClusters", "ec2:DescribeInstances", "ec2:DescribeRegions",
      "lambda:ListFunctions", "cloudwatch:DescribeAlarms", "cloudwatch:ListMetrics",
      "rds:DescribeDBInstances", "elbv2:DescribeLoadBalancers", "s3:ListBuckets">>

\* check_permissions: required_tests, in order.
required_tests ==
    <<"ecs:ListClusters", "ec2:DescribeInstances", "ec2:DescribeRegions",
      "lambda:ListFunctions", "cloudwatch:DescribeAlarms", "cloudwatch:ListMetrics",
      "rds:DescribeDBInstances", "elbv2:DescribeLoadBalancers", "s3:ListBuckets",
      "sts:GetCallerIdentity">>

\* check_permissions: optional_tests, in order.
optional_tests ==
    <<"ce:GetCostAndUsage", "securityhub:GetFindings", "guardduty:ListDetectors",
      "elasticbeanstalk:DescribeEnvironments">>

NoReturns == [cli |-> None, identity |-> None, permissions |-> None]

(***************************************************************************)
(* Helpers of the actions.                                                 *)
(***************************************************************************)
\* One run_aws_command call of aws_check.py: the command line name, outcome o.
Invoke(name, o) ==
    /\ calls' = Append(calls, name)
    /\ proc' = o
    /\ result' = run_aws_command(o)

\* One run_aws_command call of aws_metrics.py.
MetricsInvoke(name, o) ==
    /\ calls' = Append(calls, name)
    /\ proc' = o
    /\ result' = metrics_run_aws_command(o)

\* main returns code (sys.exit(main())).
Exit(code) ==
    /\ pc' = "done"
    /\ exit' = code

\* main goes on to the call site next.
Goto(next) ==
    /\ pc' = next
    /\ exit' = exit

Inputs == <<tool, command, optarg, hours, awsInPath, configExists, credentialsExists,
            outFile0, dimension, configFile, credentialsFile, env>>
PermLocals == <<idx, passed, failed, reqFailed>>
MetricsLocals == <<counts, window, tmpFile, outFile>>

\* What a for loop over n items prints with its one print statement: the
\* statement is recorded once when it ran at all.
Lines(n, tag) == IF n > 0 THEN <<tag>> ELSE <<>>

(***************************************************************************)
(* aws_check.py                                                            *)
(***************************************************************************)
\* check_cli_installed going on to aws --version without looking at PATH.
ShutilWhich_AlwaysFound == TRUE

\* check_cli_installed: shutil.which("aws") finds a binary.
ShutilWhich == awsInPath

\* main with the services branch going straight to discover_services.
AfterCli_ServicesUnchecked ==
    IF command = "config" THEN "show_config"
    ELSE IF command = "services" THEN "discover_services"
    ELSE "check_identity"

\* main: what follows a successful check_cli_installed.
AfterCli == IF command = "config" THEN "show_config" ELSE "check_identity"

\* main: what follows a successful check_identity ("done": return 0).
AfterIdentity ==
    CASE command = "all" -> "show_config"
      [] command = "permissions" -> "check_permissions"
      [] command = "services" -> "discover_services"
      [] OTHER -> "done"

\* main: what follows show_config.
AfterConfig == IF command = "all" THEN "check_permissions" ELSE "done"

\* main with the all branch returning on the value of check_permissions too.
PermissionsDecide_AllToo == (command \in {"permissions", "all"})

\* main: whether the value of check_permissions decides the exit code.
PermissionsDecide == (command = "permissions")

\* main returning 1 after check_permissions whatever its value.
PermissionsCode_AlwaysOne(ok) == 1

\* main: the exit code for the value ok of check_permissions.
PermissionsCode(ok) == IF ok THEN 0 ELSE 1

\* check_cli_installed, and main's test of its value.
check_cli_installed ==
    /\ pc = "main"
    /\ tool = "check"
    /\ IF ~ShutilWhich
       THEN /\ out' = out \o <<"header:AWS CLI Installation",
                               "error:AWS CLI not found in PATH",
                               "print:Install with:">>
            /\ returned' = [returned EXCEPT !.cli = "False"]
            /\ Exit(1)
            /\ UNCHANGED <<calls, proc, result>>
       ELSE \E o \in Outcomes(TextStdouts) :
            /\ Invoke("--version", o)
            /\ IF run_aws_command(o).success
               THEN /\ out' = out \o <<"header:AWS CLI Installation",
                                       "success:AWS CLI installed", "info:Path">>
                    /\ returned' = [returned EXCEPT !.cli = "True"]
                    /\ Goto(AfterCli)
               ELSE /\ out' = out \o <<"header:AWS CLI Installation",
                                       "error:Failed to get AWS CLI version">>
                    /\ returned' = [returned EXCEPT !.cli = "False"]
                    /\ Exit(1)
    /\ UNCHANGED <<Inputs, dimArg, shown, PermLocals, MetricsLocals, clusters, raised>>

\* check_identity up to its region lookup, and main's test of a False.
check_identity ==
    /\ pc = "check_identity"
    /\ \E o \in Outcomes(IdentityStdouts) :
        LET r == run_aws_command(o) IN
        /\ Invoke("sts get-caller-identity", o)
        /\ IF ~r.success
           THEN /\ out' = out \o <<"header:AWS Identity",
                                   "error:Failed to get caller identity",
                                   "print:stderr", "print:Check your credentials:">>
                /\ returned' = [returned EXCEPT !.identity = "False"]
                /\ Exit(1)
           ELSE IF ~JsonLoads(r.stdout).ok
           THEN /\ out' = out \o <<"header:AWS Identity",
                                   "error:Invalid JSON response from AWS CLI">>
                /\ returned' = [returned EXCEPT !.identity = "False"]
                /\ Exit(1)
           ELSE /\ out' = out \o <<"header:AWS Identity",
                                   "success:Authenticated successfully",
                                   "info:Account", "info:ARN", "info:User ID">>
                /\ returned' = returned
                /\ Goto("check_identity_region")
    /\ UNCHANGED <<Inputs, dimArg, shown, PermLocals, MetricsLocals, clusters, raised>>

\* check_identity: the region lookup, return True, and main's next step.
check_identity_region ==
    /\ pc = "check_identity_region"
    /\ \E o \in Outcomes(TextStdouts) :
        /\ Invoke("configure get region", o)
        /\ out' = Append(out, "info:Region")
        /\ returned' = [returned EXCEPT !.identity = "True"]
        /\ IF AfterIdentity = "done" THEN Exit(0) ELSE Goto(AfterIdentity)
    /\ UNCHANGED <<Inputs, dimArg, shown, PermLocals, MetricsLocals, clusters, raised>>

\* The tokens of a line of ~/.aws/config or ~/.aws/credentials: the two
\* brackets, a blank, and words ("a": any word other than the two named).
LineTokens == {"[", "]", " ", "profile", "default", "a"}

\* for line in f: the lines of a file as iteration yields them, line end included.
ReadLines(file) == [i \in 1..Len(file) |-> file[i] \o <<"\n">>]

\* str.startswith(prefix).
StartsWith(t, prefix) ==
    Len(t) >= Len(prefix) /\ SubSeq(t, 1, Len(prefix)) = prefix

\* str.replace(old, ""): every occurrence of old, found from the left and
\* without overlap, is removed.
RECURSIVE Remove(_, _)
Remove(t, old) ==
    IF Len(t) < Len(old) THEN t
    ELSE IF SubSeq(t, 1, Len(old)) = old
         THEN Remove(SubSeq(t, Len(old) + 1, Len(t)), old)
         ELSE <<Head(t)>> \o Remove(Tail(t), old)

\* show_config: the profile printed for a line of ~/.aws/config.
ConfigProfile(line) ==
    Remove(Remove(Remove(line, <<"[", "profile", " ">>), <<"[">>), <<"]">>)

\* show_config: the profile printed for a line of ~/.aws/credentials.
CredentialsProfile(line) == Remove(Remove(line, <<"[">>), <<"]">>)

\* show_config: the stripped lines of file that yield a printed profile.
ProfileLines(file) ==
    SelectSeq([i \in 1..Len(file) |-> Strip(ReadLines(file)[i])],
              LAMBDA l : StartsWith(l, <<"[">>))

\* show_config: the profiles printed for ~/.aws/config, in order.
ConfigProfiles(file) ==
    [i \in 1..Len(ProfileLines(file)) |-> ConfigProfile(ProfileLines(file)[i])]

\* show_config: the profiles printed for ~/.aws/credentials, in order.
CredentialsProfiles(file) ==
    [i \in 1..Len(ProfileLines(file)) |-> CredentialsProfile(ProfileLines(file)[i])]

\* show_config: the keys of env_vars, in order, and those holding a secret.
env_vars == <<"AWS_PROFILE", "AWS_DEFAULT_REGION", "AWS_ACCESS_KEY_ID",
              "AWS_SECRET_ACCESS_KEY">>
Secrets == {"AWS_ACCESS_KEY_ID", "AWS_SECRET_ACCESS_KEY"}

\* What Python takes for true in a test of os.environ.get(var).
EnvTruthy(v) == v \notin {None, ""}

\* An env_vars that holds every variable as it is in the environment (used
\* to test C16).
EnvValue_Unmasked(var, e) == e[var]

\* show_config: the value env_vars holds for var in environment e.
EnvValue(var, e) ==
    IF var \in Secrets
    THEN (IF EnvTruthy(e[var]) THEN "***" ELSE None)
    ELSE e[var]

\* show_config: the line printed for var.
EnvLine(var, e) ==
    IF EnvTruthy(EnvValue(var, e))
    THEN [level |-> "info", var |-> var, value |-> EnvValue(var, e)]
    ELSE [level |-> "warning", var |-> var, value |-> "not set"]

\* show_config: the lines of the environment section, in order.
EnvLines(e) == [i \in 1..Len(env_vars) |-> EnvLine(env_vars[i], e)]

NothingShown == [config |-> <<>>, credentials |-> <<>>, env |-> <<>>]

\* show_config: what is printed of files and environment.
ShowConfigValues(cfgExists, cfg, credExists, cred, e) ==
    [config |-> IF cfgExists THEN ConfigProfiles(cfg) ELSE <<>>,
     credentials |-> IF credExists THEN CredentialsProfiles(cred) ELSE <<>>,
     env |-> EnvLines(e)]

\* show_config: the two files and the environment section.
show_config ==
    /\ pc = "show_config"
    /\ out' = out \o <<"header:AWS Configuration", "print:Configuration files:">>
                  \o (IF configExists
                      THEN <<"success:~/.aws/config exists", "print:Profiles:">>
                      ELSE <<"warning:~/.aws/config not found">>)
                  \o (IF credentialsExists
                      THEN <<"success:~/.aws/credentials exists", "print:Profiles:">>
                      ELSE <<"warning:~/.aws/credentials not found">>)
                  \o <<"print:Environment variables:">>
    /\ shown' = ShowConfigValues(configExists, configFile,
                                 credentialsExists, credentialsFile, env)
    /\ IF AfterConfig = "done" THEN Exit(0) ELSE Goto(AfterConfig)
    /\ UNCHANGED <<Inputs, dimArg, PermLocals, MetricsLocals, clusters, calls, proc,
                   result, returned, raised>>

\* check_permissions: one turn of the loop over required_tests.  The line each
\* turn prints (print_success or print_error) is counted by passed and failed.
check_permissions_required ==
    /\ pc = "check_permissions"
    /\ idx \in 1..Len(required_tests)
    /\ \E o \in Outcomes(TextStdouts) :
        LET r == run_aws_command(o) IN
        /\ Invoke(required_tests[idx], o)
        /\ passed' = IF r.success THEN passed + 1 ELSE passed
        /\ failed' = IF r.success THEN failed ELSE failed + 1
        /\ reqFailed' = (reqFailed \/ ~(o.kind = "exit" /\ o.returncode = 0))
    /\ out' = out \o (IF idx = 1 THEN <<"header:Dash Monitoring Permissions">> ELSE <<>>)
    /\ IF idx = Len(required_tests)
       THEN /\ idx' = 1
            /\ Goto("check_permissions_optional")
       ELSE /\ idx' = idx + 1
            /\ Goto("check_permissions")
    /\ UNCHANGED <<Inputs, dimArg, shown, MetricsLocals, clusters, returned, raised>>

\* check_permissions: one turn of the loop over optional_tests (its line is
\* print_success or print_warning; nothing is counted).
check_permissions_optional ==
    /\ pc = "check_permissions_optional"
    /\ idx \in 1..Len(optional_tests)
    /\ \E o \in Outcomes(TextStdouts) : Invoke(optional_tests[idx], o)
    /\ out' = out \o (IF idx = 1
                      THEN <<"info:Optional permissions (may require service activation):">>
                      ELSE <<>>)
    /\ IF idx = Len(optional_tests)
       THEN /\ idx' = 1
            /\ Goto("check_permissions_return")
       ELSE /\ idx' = idx + 1
            /\ Goto("check_permissions_optional")
    /\ UNCHANGED <<Inputs, dimArg, shown, MetricsLocals, clusters, returned, passed, failed,
                   reqFailed, raised>>

\* check_permissions: the summary line, return failed == 0, and main's use of it.
check_permissions_return ==
    /\ pc = "check_permissions_return"
    /\ out' = Append(out, "print:Required permissions:")
    /\ returned' = [returned EXCEPT !.permissions = IF failed = 0 THEN "True" ELSE "False"]
    /\ passed' = 0
    /\ failed' = 0
    /\ IF PermissionsDecide
       THEN Exit(PermissionsCode(failed = 0))
       ELSE Goto("discover_services")
    /\ UNCHANGED <<Inputs, dimArg, shown, MetricsLocals, clusters, calls, proc, result, idx,
                   reqFailed, raised>>

\* A section that reports output that does not parse as nothing found.
SectionLines_UnparsedAsNone(r, item, none, unparsed, failure) ==
    IF r.success
    THEN IF JsonLoads(r.stdout).ok /\ JsonLoads(r.stdout).n > 0
         THEN Lines(JsonLoads(r.stdout).n, item)
         ELSE <<none>>
    ELSE <<failure>>

\* discover_services: what one section prints for result r of its listing call
\* (items found, none found, output that does not parse, call failed).
SectionLines(r, item, none, unparsed, failure) ==
    IF r.success
    THEN IF JsonLoads(r.stdout).ok
         THEN IF JsonLoads(r.stdout).n > 0
              THEN Lines(JsonLoads(r.stdout).n, item)
              ELSE <<none>>
         ELSE <<unparsed>>
    ELSE <<failure>>

\* discover_services: the ECS section up to the loop over the clusters.
discover_ecs_clusters ==
    /\ pc = "discover_services"
    /\ \E o \in Outcomes(ListStdouts) :
        LET r == run_aws_command(o)
            head == <<"header:Service Discovery", "print:ECS Clusters:">>
        IN
        /\ Invoke("ecs list-clusters", o)
        /\ IF r.success /\ JsonLoads(r.stdout).ok /\ JsonLoads(r.stdout).n > 0
           THEN /\ out' = out \o head
                /\ clusters' = JsonLoads(r.stdout).n
                /\ idx' = 1
                /\ Goto("discover_ecs_services")
           ELSE /\ out' = out \o head
                            \o SectionLines(r, "info:cluster_name",
                                            "warning:No ECS clusters found",
                                            "error:Failed to parse ECS clusters response",
                                            "error:Failed to list ECS clusters")
                /\ clusters' = 0
                /\ idx' = idx
                /\ Goto("discover_ec2")
    /\ UNCHANGED <<Inputs, dimArg, shown, MetricsLocals, passed, failed, reqFailed, returned, raised>>

\* discover_services: one turn of the loop over the clusters.  json.loads of
\* the services runs inside the try of the ECS section: its JSONDecodeError
\* is caught by that section's handler, which ends the loop.
discover_ecs_services ==
    /\ pc = "discover_ecs_services"
    /\ idx \in 1..clusters
    /\ \E o \in Outcomes(ListStdouts) :
        LET r == run_aws_command(o) IN
        /\ Invoke("ecs list-services", o)
        /\ IF r.success /\ ~JsonLoads(r.stdout).ok
           THEN /\ out' = out \o <<"info:cluster_name",
                                   "error:Failed to parse ECS clusters response">>
                /\ idx' = 1
                /\ clusters' = clusters
                /\ Goto("discover_ec2")
           ELSE /\ out' = out \o <<"info:cluster_name">>
                            \o (IF r.success
                                THEN Lines(JsonLoads(r.stdout).n, "print:service_name")
                                ELSE <<>>)
                /\ IF idx = clusters
                   THEN /\ idx' = 1
                        /\ clusters' = clusters
                        /\ Goto("discover_ec2")
                   ELSE /\ idx' = idx + 1
                        /\ clusters' = clusters
                        /\ Goto("discover_ecs_services")
    /\ UNCHANGED <<Inputs, dimArg, shown, MetricsLocals, passed, failed, reqFailed, returned, raised>>

\* discover_services: the EC2 section.
discover_ec2 ==
    /\ pc = "discover_ec2"
    /\ \E o \in Outcomes(ListStdouts) :
        /\ Invoke("ec2 describe-instances", o)
        /\ out' = out \o <<"print:EC2 Instances (running):">>
                      \o SectionLines(run_aws_command(o), "info:instance",
                                      "warning:No running EC2 instances found",
                                      "error:Failed to parse EC2 instances response",
                                      "error:Failed to describe EC2 instances")
    /\ Goto("discover_lambda")
    /\ UNCHANGED <<Inputs, dimArg, shown, PermLocals, MetricsLocals, clusters, returned, raised>>

\* discover_services: what the Lambda section prints: the first ten functions,
\* then how many more there are.
LambdaLines(r) ==
    IF r.success /\ JsonLoads(r.stdout).ok /\ JsonLoads(r.stdout).n > 10
    THEN Lines(10, "info:function") \o <<"print:... and more">>
    ELSE SectionLines(r, "info:function",
                      "warning:No Lambda functions found",
                      "error:Failed to parse Lambda functions response",
                      "error:Failed to list Lambda functions")

\* discover_services: the Lambda section.
discover_lambda ==
    /\ pc = "discover_lambda"
    /\ \E o \in Outcomes(ListStdouts) :
        /\ Invoke("lambda list-functions", o)
        /\ out' = out \o <<"print:Lambda Functions:">>
                      \o LambdaLines(run_aws_command(o))
    /\ Goto("discover_elbv2")
    /\ UNCHANGED <<Inputs, dimArg, shown, PermLocals, MetricsLocals, clusters, returned, raised>>

\* discover_services: the load balancer section.
discover_elbv2 ==
    /\ pc = "discover_elbv2"
    /\ \E o \in Outcomes(ListStdouts) :
        /\ Invoke("elbv2 describe-load-balancers", o)
        /\ out' = out \o <<"print:Load Balancers:">>
                      \o SectionLines(run_aws_command(o), "info:load_balancer",
                                      "warning:No load balancers found",
                                      "error:Failed to parse load balancers response",
                                      "error:Failed to describe load balancers")
    /\ Goto("discover_rds")
    /\ UNCHANGED <<Inputs, dimArg, shown, PermLocals, MetricsLocals, clusters, returned, raised>>

\* discover_services: the RDS section, its return, and main's return 0.
discover_rds ==
    /\ pc = "discover_rds"
    /\ \E o \in Outcomes(ListStdouts) :
        /\ Invoke("rds describe-db-instances", o)
        /\ out' = out \o <<"print:RDS Instances:">>
                      \o SectionLines(run_aws_command(o), "info:db_instance",
                                      "warning:No RDS instances found",
                                      "error:Failed to parse RDS instances response",
                                      "error:Failed to describe RDS instances")
    /\ Exit(0)
    /\ UNCHANGED <<Inputs, dimArg, shown, PermLocals, MetricsLocals, clusters, returned, raised>>

(***************************************************************************)
(* aws_metrics.py                                                          *)
(***************************************************************************)
\* The values datetime.now(timezone.utc) may give: (seconds, microseconds).
Clock == {<<1000000, 0>>, <<1000001, 999999>>}

\* strftime("%Y-%m-%dT%H:%M:%SZ"): the time to the second, microseconds dropped.
Strftime(t) == t[1]

\* get_time_range(hours) when the clock reads now: (start, end) as formatted.
get_time_range(h, now) ==
    LET end_time == now
        start_time == <<end_time[1] - h * 3600, end_time[2]>>
    IN <<Strftime(start_time), Strftime(end_time)>>

\* Output of get-metric-data --output json.
DataStdouts == {DictDoc, <<>>, <<"a">>}

\* Output of a count query (length(MetricAlarms), --output text).
CountStdouts == {<<"0", "\n">>, <<"a", "\n">>, <<>>}

\* What open(output_file, "w") and f.write can do: both work; open raises
\* (no such directory, no permission) and the file is untouched; open works
\* (the file is created or truncated) and the write raises.
WriteOutcomes == {"ok", "open raises", "write raises"}

\* list_alarms: the states counted, in order.
alarm_states == <<"ALARM", "OK", "INSUFFICIENT_DATA">>

\* The metrics each report walks through, in order.
ecs_metrics == <<"CPUUtilization", "MemoryUtilization">>
ec2_metrics == <<"CPUUtilization", "NetworkIn", "NetworkOut">>
rds_metrics == <<"CPUUtilization", "DatabaseConnections", "FreeStorageSpace">>

CheckLocals == <<returned, passed, failed, reqFailed, clusters>>

\* main with no sub-command: the help text.
metrics_help ==
    /\ pc = "main"
    /\ tool = "metrics"
    /\ command = None
    /\ out' = Append(out, "print:help")
    /\ Exit(0)
    /\ UNCHANGED <<Inputs, dimArg, shown, CheckLocals, MetricsLocals, idx, calls, proc, result, raised>>

\* list_metrics, and main's return of its value.
list_metrics ==
    /\ pc = "main"
    /\ tool = "metrics"
    /\ command = "list"
    /\ IF ~optarg
       THEN /\ out' = out \o <<"header:CloudWatch Metrics", "print:Common namespaces:",
                               "print:Usage: aws_metrics.py list <namespace>">>
            /\ Exit(0)
            /\ UNCHANGED <<calls, proc, result>>
       ELSE \E o \in Outcomes(TextStdouts) :
            /\ MetricsInvoke("cloudwatch list-metrics", o)
            /\ IF metrics_run_aws_command(o).success
               THEN /\ out' = out \o <<"header:CloudWatch Metrics",
                                       "info:Listing metrics in namespace", "print:stdout">>
                    /\ Exit(0)
               ELSE /\ out' = out \o <<"header:CloudWatch Metrics",
                                       "info:Listing metrics in namespace",
                                       "error:Failed to list metrics">>
                    /\ Exit(1)
    /\ UNCHANGED <<Inputs, dimArg, shown, CheckLocals, MetricsLocals, idx, raised>>

\* A text of the model as an optional string: None, or the string itself.
NoText == [some |-> FALSE, text |-> <<>>]
Some(t) == [some |-> TRUE, text |-> t]

\* What Python takes for true in a test of an optional string.
Truthy(x) == x.some /\ x.text # <<>>

\* The values --dimension takes: not given, or a text of letters and "=".
Dimensions == {NoText} \cup {Some(t) : t \in TextsUpTo({"a", "="}, MaxDimension)}

\* The positions of sep in t.
Positions(t, sep) == {i \in 1..Len(t) : t[i] = sep}

\* The least element of a non-empty set of numbers.
Min(S) == CHOOSE i \in S : \A j \in S : i <= j

\* A split that cuts at every separator, str.split(sep) (used to test C17).
RECURSIVE Split1_AtEvery(_, _)
Split1_AtEvery(t, sep) ==
    IF Positions(t, sep) = {} THEN <<t>>
    ELSE <<SubSeq(t, 1, Min(Positions(t, sep)) - 1)>>
         \o Split1_AtEvery(SubSeq(t, Min(Positions(t, sep)) + 1, Len(t)), sep)

\* str.split(sep, 1): the text cut at its first sep, or the text itself.
Split1(t, sep) ==
    IF Positions(t, sep) = {} THEN <<t>>
    ELSE <<SubSeq(t, 1, Min(Positions(t, sep)) - 1),
           SubSeq(t, Min(Positions(t, sep)) + 1, Len(t))>>

\* main, get branch: (dim_name, dim_value) from args.dimension.
ParseDimension(d) ==
    IF Truthy(d) /\ Len(Split1(d.text, "=")) = 2
    THEN [name |-> Some(Split1(d.text, "=")[1]), value |-> Some(Split1(d.text, "=")[2])]
    ELSE [name |-> NoText, value |-> NoText]

\* get_metric: no --dimensions on the command line.
NoFilter == [passed |-> FALSE, name |-> <<>>, value |-> <<>>]

\* get_metric: the --dimensions filter for dimension_name and dimension_value.
DimensionFilter(name, value) ==
    IF Truthy(name) /\ Truthy(value)
    THEN [passed |-> TRUE, name |-> name.text, value |-> value.text]
    ELSE NoFilter

\* get_metric, and main's return of its value.
get_metric ==
    /\ pc = "main"
    /\ tool = "metrics"
    /\ command = "get"
    /\ \E now \in Clock : window' = get_time_range(hours, now)
    /\ \E o \in Outcomes(TextStdouts) :
        LET dim == ParseDimension(dimension)
            filter == DimensionFilter(dim.name, dim.value)
            head == <<"header:CloudWatch Metric", "info:Namespace",
                      "info:Period", "info:Time range">>
                    \o (IF filter.passed THEN <<"info:Dimension">> ELSE <<>>)
        IN
        /\ dimArg' = filter
        /\ MetricsInvoke("cloudwatch get-metric-statistics", o)
        /\ IF metrics_run_aws_command(o).success
           THEN /\ out' = out \o head \o <<"print:stdout">>
                /\ Exit(0)
           ELSE /\ out' = out \o head \o <<"error:Failed to get metric">>
                /\ Exit(1)
    /\ UNCHANGED <<Inputs, shown, CheckLocals, counts, tmpFile, outFile, idx, raised>>

\* list_alarms up to its loop over the states.
list_alarms ==
    /\ pc = "main"
    /\ tool = "metrics"
    /\ command = "alarms"
    /\ \E o \in Outcomes(TextStdouts) :
        LET head == <<"header:CloudWatch Alarms">>
                    \o (IF optarg THEN <<"info:Filtering by state">> ELSE <<>>)
        IN
        /\ MetricsInvoke("cloudwatch describe-alarms", o)
        /\ IF metrics_run_aws_command(o).success
           THEN /\ out' = out \o head \o <<"print:stdout">>
                /\ idx' = 1
                /\ Goto("list_alarms_counts")
           ELSE /\ out' = out \o head \o <<"error:Failed to list alarms">>
                /\ idx' = idx
                /\ Exit(1)
    /\ UNCHANGED <<Inputs, dimArg, shown, CheckLocals, MetricsLocals, raised>>

\* list_alarms: what the summary prints for counts c.
AlarmSummary(c) ==
    <<"print:Summary:">>
    \o (IF c[1] # <<"0">> THEN <<"print:RED ALARM: alarm_count">> ELSE <<"print:ALARM: 0">>)
    \o <<"print:OK: count", "print:INSUFFICIENT_DATA: count">>

\* A count that shows whatever a failed query left on its output (used to
\* test C14).
AlarmCount_FailureAsOutput(r) == Strip(r.stdout)

\* list_alarms: the count shown for a state, given the result of its query.
AlarmCount(r) == IF r.success THEN Strip(r.stdout) ELSE <<"?">>

\* list_alarms: one turn of the loop over the states; after the last, the
\* summary and return 0.
list_alarms_counts ==
    /\ pc = "list_alarms_counts"
    /\ idx \in 1..Len(alarm_states)
    /\ \E o \in Outcomes(CountStdouts) :
        LET r == metrics_run_aws_command(o)
            c == Append(counts, AlarmCount(r))
        IN
        /\ MetricsInvoke("cloudwatch describe-alarms --state-value", o)
        /\ counts' = c
        /\ IF idx = Len(alarm_states)
           THEN /\ out' = out \o AlarmSummary(c)
                /\ idx' = 1
                /\ Exit(0)
           ELSE /\ out' = out
                /\ idx' = idx + 1
                /\ Goto("list_alarms_counts")
    /\ UNCHANGED <<Inputs, dimArg, shown, CheckLocals, window, tmpFile, outFile, raised>>

\* get_ecs_metrics up to its loop: with no service, the listing of the
\* services and return 0.
get_ecs_metrics ==
    /\ pc = "main"
    /\ tool = "metrics"
    /\ command = "ecs"
    /\ \E now \in Clock : window' = get_time_range(hours, now)
    /\ IF ~optarg
       THEN \E o \in Outcomes(ListStdouts) :
            LET r == metrics_run_aws_command(o) IN
            /\ MetricsInvoke("ecs list-services", o)
            /\ out' = out \o <<"header:ECS Metrics", "print:Services in cluster:">>
                          \o (IF r.success
                              THEN IF JsonLoads(r.stdout).ok
                                   THEN Lines(JsonLoads(r.stdout).n, "print:svc_name")
                                   ELSE <<"error:Failed to parse services response">>
                              ELSE <<"error:Failed to list services">>)
                          \o <<"print:Usage: aws_metrics.py ecs cluster <service-name>">>
            /\ idx' = idx
            /\ Exit(0)
       ELSE /\ out' = out \o <<"header:ECS Metrics", "info:Service">>
            /\ idx' = 1
            /\ Goto("get_ecs_metrics_loop")
            /\ UNCHANGED <<calls, proc, result>>
    /\ UNCHANGED <<Inputs, dimArg, shown, CheckLocals, counts, tmpFile, outFile, raised>>

\* One turn of the loop over the metrics of a report; after the last, return 0.
MetricsLoop(here, metrics) ==
    /\ pc = here
    /\ idx \in 1..Len(metrics)
    /\ \E o \in Outcomes(TextStdouts) :
        /\ MetricsInvoke("cloudwatch get-metric-statistics", o)
        /\ out' = out \o <<"print:label">>
                      \o (IF metrics_run_aws_command(o).success
                          THEN <<"print:stdout">>
                          ELSE <<"warning:No data for metric">>)
    /\ IF idx = Len(metrics)
       THEN /\ idx' = 1
            /\ Exit(0)
       ELSE /\ idx' = idx + 1
            /\ Goto(here)
    /\ UNCHANGED <<Inputs, dimArg, shown, CheckLocals, MetricsLocals, raised>>

\* get_ecs_metrics: the loop over its two metrics.
get_ecs_metrics_loop == MetricsLoop("get_ecs_metrics_loop", ecs_metrics)

\* get_ec2_metrics up to its loop.
get_ec2_metrics ==
    /\ pc = "main"
    /\ tool = "metrics"
    /\ command = "ec2"
    /\ \E now \in Clock : window' = get_time_range(hours, now)
    /\ out' = Append(out, "header:EC2 Metrics")
    /\ idx' = 1
    /\ Goto("get_ec2_metrics_loop")
    /\ UNCHANGED <<Inputs, dimArg, shown, CheckLocals, counts, tmpFile, outFile, calls, proc, result, raised>>

\* get_ec2_metrics: the loop over its three metrics.
get_ec2_metrics_loop == MetricsLoop("get_ec2_metrics_loop", ec2_metrics)

\* get_rds_metrics up to its loop.
get_rds_metrics ==
    /\ pc = "main"
    /\ tool = "metrics"
    /\ command = "rds"
    /\ \E now \in Clock : window' = get_time_range(hours, now)
    /\ out' = Append(out, "header:RDS Metrics")
    /\ idx' = 1
    /\ Goto("get_rds_metrics_loop")
    /\ UNCHANGED <<Inputs, dimArg, shown, CheckLocals, counts, tmpFile, outFile, calls, proc, result, raised>>

\* get_rds_metrics: the loop over its three metrics.
get_rds_metrics_loop == MetricsLoop("get_rds_metrics_loop", rds_metrics)

\* export_metrics up to its try: the time range and the temporary query file.
export_metrics ==
    /\ pc = "main"
    /\ tool = "metrics"
    /\ command = "export"
    /\ \E now \in Clock : window' = get_time_range(hours, now)
    /\ out' = out \o <<"header:Exporting Metrics", "info:Time range", "info:Output file">>
    /\ tmpFile' = TRUE
    /\ Goto("export_metrics_call")
    /\ UNCHANGED <<Inputs, dimArg, shown, CheckLocals, counts, outFile, idx, calls, proc, result, raised>>

\* The prefixes of text s that are shorter than s.
Truncations(s) == {SubSeq(s, 1, n) : n \in 0..(Len(s) - 1)}

\* export_metrics writing the output file whatever the call's result.
ExportWrites_Always(r) == TRUE

\* export_metrics: whether the output file is written for result r.
ExportWrites(r) == r.success

\* export_metrics: the try block (the call and the write of the output file).
\* A return or an exception leaves the block through the finally clause.
export_metrics_call ==
    /\ pc = "export_metrics_call"
    /\ \E o \in Outcomes(DataStdouts), w \in WriteOutcomes :
        LET r == metrics_run_aws_command(o) IN
        /\ MetricsInvoke("cloudwatch get-metric-data", o)
        /\ IF ExportWrites(r)
           THEN CASE w = "ok" ->
                      /\ outFile' = File(r.stdout)
                      /\ out' = out \o <<"success:Metrics exported", "info:File size">>
                      /\ raised' = raised
                  [] w = "open raises" ->
                      /\ outFile' = outFile
                      /\ out' = out
                      /\ raised' = "OSError"
                  [] w = "write raises" ->
                      /\ outFile' \in {File(t) : t \in {<<>>} \cup Truncations(r.stdout)}
                      /\ out' = out
                      /\ raised' = "OSError"
           ELSE /\ outFile' = outFile
                /\ out' = Append(out, "error:Failed to export metrics")
                /\ raised' = raised
    /\ Goto("export_metrics_finally")
    /\ UNCHANGED <<Inputs, dimArg, shown, CheckLocals, counts, window, tmpFile, idx>>

\* An unlink placed at the end of the try block, which an exception skips
\* (used to test C15).
FinallyUnlinks_OnlyWithoutException(exc) == exc = "none"

\* export_metrics: whether the unlink of the query file runs when the try
\* block was left with exception exc ("none": by a return).  It is in the
\* finally clause.
FinallyUnlinks(exc) == TRUE

\* export_metrics: the finally clause, then the return of the value (through
\* main) or the exception leaving main.
export_metrics_finally ==
    /\ pc = "export_metrics_finally"
    /\ tmpFile' = IF FinallyUnlinks(raised) THEN FALSE ELSE tmpFile
    /\ Exit(IF raised # "none" THEN 1 ELSE IF ExportWrites(result) THEN 0 ELSE 1)
    /\ UNCHANGED <<Inputs, dimArg, shown, CheckLocals, counts, window, outFile, idx, calls, proc,
                   result, out, raised>>

(***************************************************************************)
(* The run.                                                                *)
(***************************************************************************)
\* A ~/.aws/config and a ~/.aws/credentials as aws configure writes them.
SampleConfig == <<<<"[", "default", "]">>, <<"a">>, <<"[", "profile", " ", "a", "]">>>>
SampleCredentials == <<<<"[", "default", "]">>, <<"a">>>>

\* The values of an environment variable: unset, empty, or one of two texts.
EnvValues == {None, "", "v", "w"}

\* Environments with every variable unset, or every variable set.
SampleEnvs == {[v \in Range(env_vars) |-> x] : x \in {None, "v"}}

\* The command lines argparse accepts, and the environment a run may find.
Init ==
    /\ tool \in {"check", "metrics"}
    /\ command \in (IF tool = "check" THEN CheckCommands ELSE MetricsCommands)
    /\ optarg \in (IF tool = "metrics" /\ command \in {"list", "alarms", "ecs"}
                   THEN BOOLEAN ELSE {FALSE})
    /\ hours \in (IF tool = "metrics" /\ command \in {"get", "ecs", "ec2", "rds", "export"}
                  THEN Hours \cup {EXPORT_HOURS} ELSE {DEFAULT_HOURS})
    /\ awsInPath \in BOOLEAN
    /\ configExists \in (IF tool = "check" /\ command \in {"all", "config"}
                         THEN BOOLEAN ELSE {FALSE})
    /\ credentialsExists \in (IF tool = "check" /\ command \in {"all", "config"}
                              THEN BOOLEAN ELSE {FALSE})
    /\ outFile0 \in (IF tool = "metrics" /\ command = "export"
                     THEN {Absent, File(<<"o", "l", "d">>)} ELSE {Absent})
    /\ outFile = outFile0
    /\ dimension \in (IF tool = "metrics" /\ command = "get"
                      THEN Dimensions ELSE {NoText})
    /\ dimArg = NoFilter
    /\ configFile \in (IF configExists THEN {SampleConfig} ELSE {<<>>})
    /\ credentialsFile \in (IF credentialsExists THEN {SampleCredentials} ELSE {<<>>})
    /\ env \in (IF tool = "check" /\ command = "config"
                THEN SampleEnvs ELSE {[v \in Range(env_vars) |-> None]})
    /\ shown = NothingShown
    /\ pc = "main"
    /\ calls = <<>>
    /\ out = <<>>
    /\ proc = NoProc
    /\ result = NoResult
    /\ returned = NoReturns
    /\ idx = 1
    /\ passed = 0
    /\ failed = 0
    /\ clusters = 0
    /\ counts = <<>>
    /\ window = <<0, 0>>
    /\ tmpFile = FALSE
    /\ reqFailed = FALSE
    /\ exit = Running
    /\ raised = "none"

Next ==
    \/ check_cli_installed
    \/ check_identity
    \/ check_identity_region
    \/ show_config
    \/ check_permissions_required
    \/ check_permissions_optional
    \/ check_permissions_return
    \/ discover_ecs_clusters
    \/ discover_ecs_services
    \/ discover_ec2
    \/ discover_lambda
    \/ discover_elbv2
    \/ discover_rds
    \/ metrics_help
    \/ list_metrics
    \/ get_metric
    \/ list_alarms
    \/ list_alarms_counts
    \/ get_ecs_metrics
    \/ get_ecs_metrics_loop
    \/ get_ec2_metrics
    \/ get_ec2_metrics_loop
    \/ get_rds_metrics
    \/ get_rds_metrics_loop
    \/ export_metrics
    \/ export_metrics_call
    \/ export_metrics_finally

Spec == Init /\ [][Next]_vars

(***************************************************************************)
(* Properties.                                                             *)
(***************************************************************************)
\* The external process of the last call exited with code 0.
ProcOk == proc.kind = "exit" /\ proc.returncode = 0

\* The last external command invoked.
LastCall == calls[Len(calls)]

\* The last line printed.
LastLine == out[Len(out)]

\* The lines of seq that are in the set keep, in order.
Only(seq, keep) == SelectSeq(seq, LAMBDA t : t \in keep)

\* C1: whatever the external call did (exit with any code, timeout, missing
\* binary), in either tool, the command result has success = true if and only
\* if its returncode is 0.
C1_SuccessAgreesWithReturncode ==
    calls # <<>> => (result.success <=> result.returncode = 0)

\* A call of the metrics tool timed out, and a failure result came back.
C1_Witness ==
    /\ tool = "metrics"
    /\ proc.kind = "TimeoutExpired"
    /\ ~result.success
    /\ result.returncode = 0 - 1

\* C2: when the external call times out or the aws binary is missing, no
\* exception leaves run_aws_command: the result is success = false, empty
\* stdout, returncode -1, and stderr "Command timed out" or "AWS CLI not found".
C2_SyntheticFailure ==
    /\ proc.kind = "TimeoutExpired" =>
          /\ result = [success |-> FALSE, stdout |-> <<>>,
                       stderr |-> "Command timed out", returncode |-> 0 - 1]
          /\ raised = "none"
    /\ proc.kind = "FileNotFoundError" =>
          /\ result = [success |-> FALSE, stdout |-> <<>>,
                       stderr |-> "AWS CLI not found", returncode |-> 0 - 1]
          /\ raised = "none"

\* The metrics tool ran with no aws binary, and the run went on to its end.
C2_Witness ==
    /\ tool = "metrics"
    /\ ~awsInPath
    /\ proc.kind = "FileNotFoundError"
    /\ result.stderr = "AWS CLI not found"
    /\ Len(calls) = 3
    /\ pc = "done"

\* C3: in the check tool with no aws binary on PATH, every sub-command ends at
\* once with exit code 1: no external command is invoked, and nothing is
\* printed after the installation section (no identity check, no config, no
\* permission probe, no discovery).
C3_AbortsWithoutCalls ==
    (tool = "check" /\ ~awsInPath /\ pc # "main") =>
        /\ pc = "done"
        /\ exit = 1
        /\ calls = <<>>
        /\ out = <<"header:AWS CLI Installation", "error:AWS CLI not found in PATH",
                   "print:Install with:">>
        /\ returned = [cli |-> "False", identity |-> None, permissions |-> None]

\* The all sequence ran with no aws binary on PATH.
C3_Witness ==
    /\ tool = "check"
    /\ command = "all"
    /\ ~awsInPath
    /\ pc = "done"
    /\ exit = 1

\* A required step of the run has failed: in the check tool the installation
\* check, the identity check or a required permission probe; in the metrics
\* tool the only call made by list, get, alarms or export, or the write of the
\* export's output file.
RequiredStepFailed ==
    IF tool = "check"
    THEN \/ returned.cli = "False"
         \/ returned.identity = "False"
         \/ reqFailed
    ELSE \/ /\ command \in {"list", "get", "alarms", "export"}
            /\ Len(calls) = 1
            /\ ~ProcOk
         \/ command = "export" /\ raised # "none"

\* C4 as stated: a run ends with a non-zero exit code only when the CLI is
\* missing or authentication failed; after any other failure it ends with 0.
C4_Original ==
    (pc = "done" /\ exit # 0) =>
        \/ ~awsInPath
        \/ returned.cli = "False"
        \/ proc.kind = "FileNotFoundError"
        \/ returned.identity = "False"

\* C4, amended: a run ends with exit code 0 or 1, and with 1 only when a
\* required step failed; no failure of an external call (non-zero exit,
\* timeout, malformed JSON) lets an exception leave main.
C4_NonZeroOnlyForRequiredStep ==
    /\ pc = "done" =>
          /\ exit \in {0, 1}
          /\ exit # 0 => RequiredStepFailed
    /\ raised # "none" => (command = "export" /\ ProcOk)

\* The permissions sub-command ended with 1 with the CLI present and the
\* identity check passed: a required probe had failed.
C4_Witness ==
    /\ tool = "check"
    /\ command = "permissions"
    /\ pc = "done"
    /\ exit = 1
    /\ returned.cli = "True"
    /\ returned.identity = "True"
    /\ reqFailed

\* C5: the check tool ends with 0 or 1, and with 1 exactly when a required step
\* that the sub-command ran has failed (installation check, identity check, or
\* one of the ten required permission probes).
C5_ExitOneIffRequiredStepFailed ==
    (tool = "check" /\ pc = "done") =>
        /\ exit \in {0, 1}
        /\ exit = 1 <=> (returned.cli = "False" \/ returned.identity = "False" \/ reqFailed)

\* The lines the installation section prints.
CliLines ==
    {"header:AWS CLI Installation", "error:AWS CLI not found in PATH",
     "print:Install with:", "success:AWS CLI installed", "info:Path",
     "error:Failed to get AWS CLI version"}

\* The lines the identity section prints before its region lookup.
IdentityLines ==
    {"header:AWS Identity", "error:Failed to get caller identity", "print:stderr",
     "print:Check your credentials:", "error:Invalid JSON response from AWS CLI",
     "success:Authenticated successfully", "info:Account", "info:ARN", "info:User ID"}

\* C6: in the check tool the installation check runs first and, except for
\* config, the identity check second; when either fails the run ends with 1,
\* no later external command is invoked and no later section is printed.
C6_PrerequisitesAbortEarly ==
    tool = "check" =>
        /\ out # <<>> => out[1] = "header:AWS CLI Installation"
        /\ calls # <<>> => calls[1] = "--version"
        /\ (Len(calls) >= 2 /\ command # "config") => calls[2] = "sts get-caller-identity"
        /\ (command # "config" /\ returned.cli = "True" /\ pc # "check_identity") =>
                returned.identity # None \/ pc = "check_identity_region"
        /\ returned.cli = "False" =>
                /\ pc = "done"
                /\ exit = 1
                /\ Len(calls) <= 1
                /\ Range(out) \subseteq CliLines
        /\ returned.identity = "False" =>
                /\ pc = "done"
                /\ exit = 1
                /\ Len(calls) = 2
                /\ Range(out) \subseteq CliLines \cup IdentityLines

\* The all sequence ended at an identity document that is not JSON.
C6_Witness ==
    /\ tool = "check"
    /\ command = "all"
    /\ returned.identity = "False"
    /\ ProcOk
    /\ ~JsonLoads(result.stdout).ok
    /\ pc = "done"

\* The first line of each report section of the check tool after the two
\* prerequisites.
SectionHeads ==
    {"header:AWS Configuration", "header:Dash Monitoring Permissions",
     "header:Service Discovery", "print:ECS Clusters:", "print:EC2 Instances (running):",
     "print:Lambda Functions:", "print:Load Balancers:", "print:RDS Instances:"}

\* The listing call of each discovery section.
SectionCalls ==
    {"ecs list-clusters", "ec2 describe-instances", "lambda list-functions",
     "elbv2 describe-load-balancers", "rds describe-db-instances"}

\* C7: in the all sequence, once the installation check and the identity check
\* have succeeded, the run never stops before its end, and at its end
\* show_config, check_permissions and discover_services have run in that
\* order, all five discovery sections have been attempted, and the exit code
\* is 0, whatever the external calls of those steps did.
C7_AllRunsEveryStep ==
    (tool = "check" /\ command = "all" /\ returned.cli = "True" /\ returned.identity = "True") =>
        /\ pc # "done" => ENABLED Next
        /\ pc = "done" =>
              /\ exit = 0
              /\ raised = "none"
              /\ Only(out, SectionHeads) =
                    <<"header:AWS Configuration", "header:Dash Monitoring Permissions",
                      "header:Service Discovery", "print:ECS Clusters:",
                      "print:EC2 Instances (running):", "print:Lambda Functions:",
                      "print:Load Balancers:", "print:RDS Instances:">>
              /\ Only(calls, SectionCalls) =
                    <<"ecs list-clusters", "ec2 describe-instances", "lambda list-functions",
                      "elbv2 describe-load-balancers", "rds describe-db-instances">>
              /\ Len(Only(calls, Range(required_tests))) = Len(required_tests)
              /\ Len(Only(calls, Range(optional_tests))) = Len(optional_tests)

\* The all sequence ended after a required probe failed, the cluster listing
\* failed, the Lambda output did not parse and the last call timed out.
C7_Witness ==
    /\ tool = "check"
    /\ command = "all"
    /\ pc = "done"
    /\ returned.identity = "True"
    /\ reqFailed
    /\ "error:Failed to list ECS clusters" \in Range(out)
    /\ "error:Failed to parse Lambda functions response" \in Range(out)
    /\ proc.kind = "TimeoutExpired"

\* The error each JSON-parsing call site prints for output that is not JSON,
\* and where the run stands after it.
ParseSites ==
    {[t |-> "check", call |-> "sts get-caller-identity", next |-> "done",
      line |-> "error:Invalid JSON response from AWS CLI"],
     [t |-> "check", call |-> "ecs list-clusters", next |-> "discover_ec2",
      line |-> "error:Failed to parse ECS clusters response"],
     [t |-> "check", call |-> "ecs list-services", next |-> "discover_ec2",
      line |-> "error:Failed to parse ECS clusters response"],
     [t |-> "check", call |-> "ec2 describe-instances", next |-> "discover_lambda",
      line |-> "error:Failed to parse EC2 instances response"],
     [t |-> "check", call |-> "lambda list-functions", next |-> "discover_elbv2",
      line |-> "error:Failed to parse Lambda functions response"],
     [t |-> "check", call |-> "elbv2 describe-load-balancers", next |-> "discover_rds",
      line |-> "error:Failed to parse load balancers response"],
     [t |-> "check", call |-> "rds describe-db-instances", next |-> "done",
      line |-> "error:Failed to parse RDS instances response"],
     [t |-> "metrics", call |-> "ecs list-services", next |-> "done",
      line |-> "error:Failed to parse services response"]}

\* C8: at every place where a successful call's output is parsed as JSON,
\* output that is not valid JSON lets no exception escape: the section's error
\* is printed, check_identity returns False (the run ends with 1), and the
\* other functions go on to their next section and return normally.
C8_UnparsableOutputHandled ==
    \A site \in ParseSites :
        (/\ calls # <<>>
         /\ tool = site.t
         /\ LastCall = site.call
         /\ ProcOk
         /\ ~JsonLoads(proc.stdout).ok) =>
            /\ raised = "none"
            /\ pc = site.next
            /\ site.line \in Range(out)
            /\ IF site.call = "sts get-caller-identity"
               THEN returned.identity = "False" /\ exit = 1 /\ LastLine = site.line
               ELSE IF site.t = "metrics"
               THEN exit = 0
               ELSE /\ LastLine = site.line
                    /\ pc = "done" => exit = 0

\* The EC2 listing of discover_services gave output that is not JSON, and the
\* run stands at the Lambda section.
C8_Witness ==
    /\ tool = "check"
    /\ calls # <<>>
    /\ LastCall = "ec2 describe-instances"
    /\ ProcOk
    /\ ~JsonLoads(proc.stdout).ok
    /\ pc = "discover_lambda"

\* The sub-commands of the metrics tool that take --hours.
HoursCommands == {"get", "ecs", "ec2", "rds", "export"}

\* C9: for every integer --hours accepts, get_time_range gives a start strictly
\* earlier than the end, exactly hours * 3600 seconds apart.
C9_WindowIsHoursLong ==
    (tool = "metrics" /\ command \in HoursCommands /\ pc # "main") =>
        /\ window[1] < window[2]
        /\ window[2] - window[1] = hours * 3600

\* C10 as stated: export writes the output file if and only if the
\* get-metric-data call succeeded, with the file's content exactly the call's
\* standard output and exit code 0; when the call fails the file is neither
\* created nor modified and the exit code is 1.
C10_Original ==
    (tool = "metrics" /\ command = "export" /\ pc = "done") =>
        IF ProcOk
        THEN outFile = File(proc.stdout) /\ exit = 0
        ELSE outFile = outFile0 /\ exit = 1

\* C10, amended: export writes to the output file only if the get-metric-data
\* call succeeded.  When the call succeeded and the file could be written, its
\* content is exactly the call's standard output and the exit code is 0; when
\* opening or writing the file raised, the exception leaves main, the exit code
\* is 1, and the file is as it was or holds less than the standard output.
\* When the call failed (non-zero exit, timeout, missing binary) the file is
\* neither created nor modified and the exit code is 1.
C10_ExportWritesOnSuccess ==
    (tool = "metrics" /\ command = "export" /\ pc = "done") =>
        /\ ~ProcOk => (outFile = outFile0 /\ exit = 1 /\ raised = "none")
        /\ (ProcOk /\ raised = "none") => (outFile = File(proc.stdout) /\ exit = 0)
        /\ (ProcOk /\ raised # "none") =>
              /\ exit = 1
              /\ \/ outFile = outFile0
                 \/ /\ outFile.exists
                    /\ Len(outFile.content) <= Len(proc.stdout)
                    /\ outFile.content = SubSeq(proc.stdout, 1, Len(outFile.content))
                    /\ outFile.content # proc.stdout \/ proc.stdout = <<>>

\* An export replaced an existing output file by the call's standard output.
C10_Witness ==
    /\ tool = "metrics"
    /\ command = "export"
    /\ pc = "done"
    /\ outFile0 = File(<<"o", "l", "d">>)
    /\ ProcOk
    /\ outFile = File(DictDoc)
    /\ exit = 0

\* The number of elements of seq equal to x.
RECURSIVE Count(_, _)
Count(seq, x) ==
    IF seq = <<>> THEN 0
    ELSE (IF Head(seq) = x THEN 1 ELSE 0) + Count(Tail(seq), x)

\* C12: once discover_services has left its ECS section, every cluster that
\* list-clusters returned has had its name printed and its services queried
\* with list-services, whatever list-services answered for an earlier cluster.
C12_EveryClusterQueried ==
    (tool = "check" /\ pc \in {"discover_ec2", "discover_lambda", "discover_elbv2",
                                "discover_rds", "done"})
        => /\ Count(out, "info:cluster_name") = clusters
           /\ Count(calls, "ecs list-services") = clusters

\* The permission probes, required and optional.
Probes == Range(required_tests) \cup Range(optional_tests)

\* C13: check_permissions issues the ten required probes and then the four
\* optional probes, each once and in order, whatever the earlier outcomes; at
\* its end passed + failed = 10, and it returns True exactly when every
\* required probe succeeded, whatever the optional probes did.
C13_AllProbesOnce ==
    tool = "check" =>
        /\ pc = "check_permissions"
             => /\ idx \in 1..10
                /\ passed + failed = idx - 1
                /\ Only(calls, Probes) = SubSeq(required_tests, 1, idx - 1)
        /\ pc = "check_permissions_optional"
             => /\ idx \in 1..4
                /\ passed + failed = 10
                /\ Only(calls, Probes)
                     = required_tests \o SubSeq(optional_tests, 1, idx - 1)
        /\ pc = "check_permissions_return"
             => /\ passed + failed = 10
                /\ Only(calls, Probes) = required_tests \o optional_tests
        /\ returned.permissions # None
             => /\ Only(calls, Probes) = required_tests \o optional_tests
                /\ returned.permissions = "True" <=> ~reqFailed
        /\ (returned.permissions = None /\ pc \notin {"check_permissions",
                "check_permissions_optional", "check_permissions_return"})
             => Only(calls, Probes) = <<>>

\* C13 witness: all fourteen probes were issued, every required probe
\* succeeded, the last optional probe failed, and True was returned.
C13_Witness ==
    /\ returned.permissions = "True"
    /\ Len(Only(calls, Probes)) = 14
    /\ LastCall = optional_tests[4]
    /\ ~ProcOk

\* The exit codes of the metrics tool, where exportOne tells when export ends
\* with 1: list <namespace> and get end with 1 exactly when their call
\* failed; alarms ends with 1 exactly when its first listing failed, and then
\* issues no count query, whereas a failed count query is shown as "?" and
\* the exit code stays 0; ecs, ec2, rds and list without a namespace end
\* with 0 whatever their calls did.
MetricsExitCodes(exportOne) ==
    tool = "metrics" =>
        /\ (pc = "done" /\ (command = "get" \/ (command = "list" /\ optarg)))
             => /\ exit \in {0, 1}
                /\ Len(calls) = 1
                /\ exit = 1 <=> ~ProcOk
        /\ (pc = "done" /\ command = "export")
             => /\ exit \in {0, 1}
                /\ Len(calls) = 1
                /\ exit = 1 <=> exportOne
        /\ (pc = "list_alarms_counts" /\ command = "alarms")
             => /\ Len(calls) = idx
                /\ Len(counts) = idx - 1
                /\ idx = 1 => ProcOk
                /\ (idx > 1 /\ ~ProcOk) => counts[idx - 1] = <<"?">>
        /\ (pc = "done" /\ command = "alarms")
             => \/ /\ exit = 1
                   /\ Len(calls) = 1
                   /\ ~ProcOk
                   /\ counts = <<>>
                \/ /\ exit = 0
                   /\ Len(calls) = 1 + Len(alarm_states)
                   /\ Len(counts) = Len(alarm_states)
                   /\ ~ProcOk => counts[Len(counts)] = <<"?">>
        /\ (pc = "done" /\ (command \in {"ecs", "ec2", "rds"}
                             \/ (command = "list" /\ ~optarg)))
             => exit = 0

\* C14 as stated: export ends with 1 exactly when its call failed.
C14_Original == MetricsExitCodes(~ProcOk)

\* C14, amended: as stated for list, get, alarms, ecs, ec2 and rds; export
\* ends with exit code 1 exactly when its call failed or, the call having
\* succeeded, the writing of the output file raised.
C14_MetricsExitCodes == MetricsExitCodes(~ProcOk \/ raised # "none")

\* C14 witness: alarms ended with exit code 0 although its first listing
\* succeeded and the last count query failed and is shown as "?".
C14_Witness ==
    /\ tool = "metrics"
    /\ command = "alarms"
    /\ pc = "done"
    /\ exit = 0
    /\ ~ProcOk
    /\ counts[3] = <<"?">>

\* C15: export_metrics does not leave its temporary query file behind.  The
\* file exists from its creation, through the external call and the writing of
\* the output file, until the finally clause; it is gone when export_metrics
\* has returned or let the exception through, whether the call succeeded, gave
\* a failure result, or the writing raised; and it is never gone before the
\* external call has completed.
C15_TemporaryFileDeleted ==
    /\ tmpFile => (tool = "metrics" /\ command = "export")
    /\ (tool = "metrics" /\ command = "export") =>
        /\ pc = "export_metrics_call" => (tmpFile /\ calls = <<>>)
        /\ pc = "export_metrics_finally" => (tmpFile /\ Len(calls) = 1)
        /\ pc = "done" => (~tmpFile /\ Len(calls) = 1)
        /\ (~tmpFile /\ pc # "main") => (proc.kind # None /\ Len(calls) = 1)

\* C15 witness: the writing of the output file raised, the exception left
\* export_metrics, and the query file is gone.
C15_Witness ==
    /\ tool = "metrics"
    /\ command = "export"
    /\ pc = "done"
    /\ raised = "OSError"
    /\ ~tmpFile

\* C17: get puts a --dimensions filter on its get-metric-statistics call
\* exactly when --dimension was given as Name=Value with a non-empty Name and a
\* non-empty Value, cut at the first "=" (so that Value may hold "="); in
\* every other case the call is issued without a filter, and neither an error
\* line nor a non-zero exit code comes from the dimension: both come only
\* from a failed call.
C17_DimensionFilter ==
    (tool = "metrics" /\ command = "get" /\ pc = "done") =>
        LET t == dimension.text
            cuts == {i \in 1..Len(t) : /\ t[i] = "="
                                       /\ \A j \in 1..(i - 1) : t[j] # "="
                                       /\ 1 < i
                                       /\ i < Len(t)}
        IN
        /\ dimArg.passed <=> (dimension.some /\ cuts # {})
        /\ dimArg.passed =>
              /\ dimArg.name \o <<"=">> \o dimArg.value = t
              /\ "=" \notin Range(dimArg.name)
        /\ "info:Dimension" \in Range(out) <=> dimArg.passed
        /\ calls = <<"cloudwatch get-metric-statistics">>
        /\ exit = (IF ProcOk THEN 0 ELSE 1)
        /\ "error:Failed to get metric" \in Range(out) <=> ~ProcOk

\* C17 witness: a filter was passed whose Value holds "=".
C17_Witness ==
    /\ tool = "metrics"
    /\ command = "get"
    /\ pc = "done"
    /\ dimArg.passed
    /\ "=" \in Range(dimArg.value)

\* C17 witness of the other side: --dimension was given without a Value, the
\* call was issued without a filter and the run ended with exit code 0.
C17_WitnessNoFilter ==
    /\ tool = "metrics"
    /\ command = "get"
    /\ pc = "done"
    /\ dimension = Some(<<"a", "=">>)
    /\ ~dimArg.passed
    /\ exit = 0

(***************************************************************************)
(* show_config alone, over every file content of the bounds (SpecConfig)   *)
(* and over every environment (SpecEnv): aws_check.py config at the point  *)
(* where main, check_cli_installed having succeeded, calls show_config.    *)
(***************************************************************************)
\* The lines of a configuration file, and the files: one line of any
\* content, or two or three lines of SampleConfig.
FileLines == TextsUpTo(LineTokens, MaxLineTokens)
Files ==
    {<<>>} \cup {<<l>> : l \in FileLines}
    \cup {<<l, m>> : l, m \in Range(SampleConfig)}
    \cup {<<l, m, n>> : l, m, n \in Range(SampleConfig)}

\* The environments: each of the four variables unset, empty, or set.
Envs == [Range(env_vars) -> EnvValues]

\* What aws --version did when check_cli_installed succeeded.
VersionProc == [kind |-> "exit", returncode |-> 0, stdout |-> <<"a">>, stderr |-> ""]

\* main about to call show_config, but for the files and the environment.
ConfigStart ==
    /\ tool = "check"
    /\ command = "config"
    /\ optarg = FALSE
    /\ hours = DEFAULT_HOURS
    /\ awsInPath = TRUE
    /\ configExists = TRUE
    /\ credentialsExists = TRUE
    /\ outFile0 = Absent
    /\ outFile = outFile0
    /\ dimension = NoText
    /\ dimArg = NoFilter
    /\ shown = NothingShown
    /\ pc = "show_config"
    /\ calls = <<"--version">>
    /\ out = <<"header:AWS CLI Installation", "success:AWS CLI installed", "info:Path">>
    /\ proc = VersionProc
    /\ result = run_aws_command(VersionProc)
    /\ returned = [NoReturns EXCEPT !.cli = "True"]
    /\ idx = 1
    /\ passed = 0
    /\ failed = 0
    /\ clusters = 0
    /\ counts = <<>>
    /\ window = <<0, 0>>
    /\ tmpFile = FALSE
    /\ reqFailed = FALSE
    /\ exit = Running
    /\ raised = "none"

\* Every content of one of the two files, the other being the sample.
InitConfig ==
    /\ ConfigStart
    /\ \/ /\ configFile \in Files
          /\ credentialsFile = SampleCredentials
       \/ /\ configFile = SampleConfig
          /\ credentialsFile \in Files
    /\ env \in SampleEnvs

NextConfig == show_config

SpecConfig == InitConfig /\ [][NextConfig]_vars

\* Every environment, the two files being the samples.
InitEnv ==
    /\ ConfigStart
    /\ configFile = SampleConfig
    /\ credentialsFile = SampleCredentials
    /\ env \in Envs

NextEnv == show_config

SpecEnv == InitEnv /\ [][NextEnv]_vars

\* show_config has run.
ShowConfigRan == "header:AWS Configuration" \in Range(out)

\* A text without brackets.
NoBracket(t) == \A i \in 1..Len(t) : t[i] \notin {"[", "]"}

\* A section header of ~/.aws/config that defines a profile: "[default]" or
\* "[profile NAME]"; and the name it defines.
IsConfigHeader(l) ==
    \/ l = <<"[", "default", "]">>
    \/ /\ Len(l) >= 5
       /\ SubSeq(l, 1, 3) = <<"[", "profile", " ">>
       /\ l[Len(l)] = "]"
       /\ NoBracket(SubSeq(l, 4, Len(l) - 1))
ConfigHeaderName(l) ==
    IF l = <<"[", "default", "]">> THEN <<"default">> ELSE SubSeq(l, 4, Len(l) - 1)

\* A section header "[NAME]" of ~/.aws/credentials, and the name it defines.
IsCredentialsHeader(l) ==
    /\ Len(l) >= 3
    /\ l[1] = "["
    /\ l[Len(l)] = "]"
    /\ NoBracket(SubSeq(l, 2, Len(l) - 1))
CredentialsHeaderName(l) == SubSeq(l, 2, Len(l) - 1)

\* The lines of file, surrounding blanks dropped.
Trimmed(file) == [i \in 1..Len(file) |-> Strip(file[i])]

\* C11: for every content of the two files, show_config prints exactly the
\* names of the profiles the file defines, in file order: for ~/.aws/config one
\* name for each header "[default]" or "[profile NAME]", for
\* ~/.aws/credentials one name for each header "[NAME]", and nothing for any
\* other line.
C11_ProfilesAreHeaders ==
    (tool = "check" /\ ShowConfigRan) =>
        /\ shown.config =
             (LET heads == SelectSeq(Trimmed(configFile), IsConfigHeader)
              IN [i \in 1..Len(heads) |-> ConfigHeaderName(heads[i])])
        /\ shown.credentials =
             (LET heads == SelectSeq(Trimmed(credentialsFile), IsCredentialsHeader)
              IN [i \in 1..Len(heads) |-> CredentialsHeaderName(heads[i])])

\* The environments that differ from e at most in the values of the
\* secrets, each secret being set to a non-empty text in both or in neither.
SameButSecretValues(e) ==
    {f \in {[e EXCEPT !["AWS_ACCESS_KEY_ID"] = a, !["AWS_SECRET_ACCESS_KEY"] = b] :
                a, b \in EnvValues} :
        \A v \in Secrets : EnvTruthy(e[v]) <=> EnvTruthy(f[v])}

\* C16: what show_config printed is what it prints in any run that differs
\* only in the values of AWS_ACCESS_KEY_ID and AWS_SECRET_ACCESS_KEY (each
\* set to a non-empty text in both runs or in neither); a secret that is set
\* is shown as "***".
C16_SecretsMasked ==
    (tool = "check" /\ ShowConfigRan) =>
        /\ \A f \in SameButSecretValues(env) :
              shown = ShowConfigValues(configExists, configFile,
                                       credentialsExists, credentialsFile, f)
        /\ \A i \in 1..Len(env_vars) :
              (env_vars[i] \in Secrets /\ EnvTruthy(env[env_vars[i]]))
                  => shown.env[i] = [level |-> "info", var |-> env_vars[i],
                                     value |-> "***"]

\* C16 witness: show_config ran with both secrets set, to different values,
\* and printed "***" for the secret key.
C16_Witness ==
    /\ tool = "check"
    /\ ShowConfigRan
    /\ env["AWS_ACCESS_KEY_ID"] = "v"
    /\ env["AWS_SECRET_ACCESS_KEY"] = "w"
    /\ shown.env[4].value = "***"

\* The state SpecConfig starts from, for the sample files, is one a run of
\* aws_check.py config reaches.
ConfigStartReached ==
    /\ pc = "show_config"
    /\ command = "config"
    /\ proc = VersionProc
    /\ result = run_aws_command(VersionProc)
    /\ calls = <<"--version">>
    /\ out = <<"header:AWS CLI Installation", "success:AWS CLI installed", "info:Path">>
    /\ returned = [NoReturns EXCEPT !.cli = "True"]
    /\ configFile = SampleConfig
    /\ credentialsFile = SampleCredentials
====
